---- MODULE Spec2Model ----
(***************************************************************************)
(* Verification model of the video dubbing service:                        *)
(*   - VideoTask.update_status          (src/src/models/video_task.py)     *)
(*   - dubbing_task, cancel_task        (src/src/routes/dubbing.py)        *)
(*   - AdaptiveMitigationService        (src/src/services/                 *)
(*                                       adaptive_mitigation_service.py)   *)
(*                                                                         *)
(* Spec     : one Task Record, its pipeline run (dubbing_task) and         *)
(*            concurrent cancellation requests (cancel_task).              *)
(* SpecLog  : the Outcome Log file and concurrent download_video calls,    *)
(*            each querying get_adaptive_params and calling record_outcome.*)
(* SpecEngine : get_adaptive_params called on any log file of a few lines. *)
(***************************************************************************)
EXTENDS Integers, Sequences, FiniteSets, TLC

VARIABLES
    task,           \* the Task Record (row of video_tasks)
    now,            \* datetime.utcnow(), in clock ticks
    pc,             \* position of the dubbing_task run
    ret,            \* value returned by the stage collaborator in flight
    locals,         \* local variables of dubbing_task
    call_log,       \* stage collaborator invocations, in order
    run_raised,     \* an exception escaped dubbing_task
    download_dir,   \* the run's working directory exists on disk
    cancel_pc,      \* position of the cancel_task handler
    cancel_count,   \* cancellation requests received so far
    cancel_resp,    \* HTTP status of the last cancel_task response
    revokes,        \* celery.control.revoke signals sent
    log_file,       \* the Outcome Log file (download_logs.json)
    downloads,      \* the download_video call of each worker process
    recorded,       \* entries of the record_outcome calls that have returned
    attempts,       \* download_video calls that queried the engine, so far
    engine_calls,   \* the pairs returned by get_adaptive_params calls, in order
    last_call,      \* the last direct update_status call: arguments, outcome
    db_tasks,       \* rows of video_tasks committed by start_dubbing
    celery_queue,   \* the task ids passed to dubbing_task.delay, in order
    start_pc,       \* position of the start_dubbing handler
    http            \* the last HTTP response sent

vars == <<task, now, pc, ret, locals, call_log, run_raised, download_dir,
          cancel_pc, cancel_count, cancel_resp, revokes,
          log_file, downloads, recorded, attempts, engine_calls, last_call,
          db_tasks, celery_queue, start_pc, http>>

httpVars == <<db_tasks, celery_queue, start_pc, http>>

taskVars == <<task, now, pc, ret, locals, call_log, run_raised, download_dir,
              cancel_pc, cancel_count, cancel_resp, revokes, last_call,
              httpVars>>

logVars == <<log_file, downloads, recorded, attempts, engine_calls>>

----------------------------------------------------------------------------
(* Bounds of the model *)

MaxTime == 3

MaxInitLog == 1

MaxAttempts == 2

MaxLogLines == 3

MaxEngineCalls == 2

MaxCancel == 2

MaxCalls == 2

MaxStart == 2

TicksPerSecond == 2

----------------------------------------------------------------------------
(* Optional values: None is the empty sequence, a value v is <<v>> *)

None == <<>>

Some(v) == <<v>>

----------------------------------------------------------------------------
(* VideoTask *)

\* A list of statuses that lets an unknown one through.
valid_statuses_Unchecked ==
    {"pending", "downloading", "processing", "uploading",
     "completed", "failed", "cancelled", "archived"}

valid_statuses ==
    {"pending", "downloading", "processing", "uploading",
     "completed", "failed", "cancelled"}

\* A finished-record check that lets a failed record through.
TerminalStatuses_NoFailed == {"completed", "cancelled"}

TerminalStatuses == {"completed", "failed", "cancelled"}

\* A record as start_dubbing creates and commits it.
NewTask ==
    [ status               |-> "pending",
      progress             |-> 0,
      error_message        |-> None,
      celery_task_id       |-> None,
      original_video_path  |-> None,
      original_audio_path  |-> None,
      dubbed_audio_path    |-> None,
      final_video_path     |-> None,
      transcription_text   |-> None,
      translated_text      |-> None,
      processing_time      |-> None,
      started_at           |-> None,
      completed_at         |-> None,
      updated_at           |-> 0 ]

\* The difference taken the wrong way round.
ProcessingSeconds_Swapped(started, completed) ==
    IF started >= completed
    THEN (started - completed) \div TicksPerSecond
    ELSE 0 - ((completed - started) \div TicksPerSecond)

\* int(processing_delta.total_seconds()): truncation toward zero
ProcessingSeconds(started, completed) ==
    IF completed >= started
    THEN (completed - started) \div TicksPerSecond
    ELSE 0 - ((started - completed) \div TicksPerSecond)

\* "if status in ['downloading', 'processing'] and not self.started_at"
SetsStartedAt(self, status) ==
    status \in {"downloading", "processing"} /\ self.started_at = None

\* The block without "self.progress = 100".
OnCompleted_KeepsProgress(self, t) ==
    [self EXCEPT !.completed_at = Some(t),
                 !.processing_time =
                     IF self.started_at # None
                     THEN Some(ProcessingSeconds(self.started_at[1], t))
                     ELSE @]

\* The block "if status == 'completed'"
OnCompleted(self, t) ==
    [self EXCEPT !.completed_at = Some(t),
                 !.progress = 100,
                 !.processing_time =
                     IF self.started_at # None
                     THEN Some(ProcessingSeconds(self.started_at[1], t))
                     ELSE @]

\* A range check that forgets the upper end.
ValidProgress_NoUpperBound(progress) == 0 <= progress

\* "0 <= progress <= 100"
ValidProgress(progress) == 0 <= progress /\ progress <= 100

\* VideoTask.update_status(status, progress, error_message) at time t.
\* The result is the record after the call and whether ValueError was raised.
update_status(self, status, progress, error_message, t) ==
    IF status \notin valid_statuses
    THEN [raised |-> TRUE, task |-> self]
    ELSE
      LET s1 == [self EXCEPT !.status = status] IN
      IF progress # None /\ ~ValidProgress(progress[1])
      THEN [raised |-> TRUE, task |-> s1]
      ELSE
        LET s2 == IF progress # None
                  THEN [s1 EXCEPT !.progress = progress[1]] ELSE s1
            s3 == IF error_message # None
                  THEN [s2 EXCEPT !.error_message = error_message] ELSE s2
            s4 == IF SetsStartedAt(s3, status)
                  THEN [s3 EXCEPT !.started_at = Some(t)] ELSE s3
            s5 == IF status = "completed" THEN OnCompleted(s4, t) ELSE s4
        IN [raised |-> FALSE, task |-> [s5 EXCEPT !.updated_at = t]]

----------------------------------------------------------------------------
(* dubbing_task *)

Stages ==
    <<"download", "extract", "preprocess", "transcribe",
      "translate", "synthesize", "merge">>

StageSet == {Stages[i] : i \in 1..Len(Stages)}

ExcMessages == {"connection reset", ""}

AudioPaths == {"a.wav", "b.wav"}

\* AudioService.preprocess_audio names its output <name>_processed.wav
ProcessedPath(p) ==
    CASE p = "a.wav" -> "a_processed.wav"
      [] p = "b.wav" -> "b_processed.wav"
      [] OTHER -> "processed.wav"

\* The values a successful call of stage s on argument arg can return.
OkValues(s, arg) ==
    CASE s = "download"   -> {"video.mp4"}
      [] s = "extract"    -> AudioPaths
      [] s = "preprocess" -> {ProcessedPath(arg)}
      [] s = "transcribe" -> {"text", ""}
      [] s = "translate"  -> {"translated", ""}
      [] s = "synthesize" -> {"dubbed.mp3"}
      [] s = "merge"      -> {"final.mp4"}

\* A text check that lets every text through.
BlankText_Never(s, arg) ==
    FALSE

\* "if not text.strip(): return None" of translate_text and text_to_speech
BlankText(s, arg) ==
    s \in {"translate", "synthesize"} /\ arg = ""

\* What a collaborator call can do: return a value, return a falsy value
\* (None), or raise an exception e; for a raise, value is str(e).  The
\* transcription and the translation return a dict, truthy also when its
\* text is empty; a blank text makes the next collaborator return None.
Results(s, arg) ==
    IF BlankText(s, arg)
    THEN {[kind |-> "falsy", value |-> ""]}
    ELSE [kind : {"ok"}, value : OkValues(s, arg)]
           \cup {[kind |-> "falsy", value |-> ""]}
           \cup [kind : {"raise"}, value : ExcMessages]

NoLocals ==
    [audio_path |-> None, processed_audio_path |-> None,
     dubbed_audio_path |-> None]

\* The argument dubbing_task passes to the collaborator of stage s.
StageArg(s) ==
    CASE s = "download"   -> "youtube_url"
      [] s = "extract"    -> task.original_video_path[1]
      [] s = "preprocess" -> locals.audio_path[1]
      [] s = "transcribe" -> locals.processed_audio_path[1]
      [] s = "translate"  -> task.transcription_text[1]
      [] s = "synthesize" -> task.translated_text[1]
      [] s = "merge"      -> locals.dubbed_audio_path[1]

\* The error message of each "if not <result>" branch.
FailureMessage(s) ==
    CASE s = "download"   -> "Failed to download video"
      [] s = "extract"    -> "Failed to extract audio"
      [] s = "transcribe" -> "Failed to transcribe audio"
      [] s = "translate"  -> "Failed to translate text"
      [] s = "synthesize" -> "Failed to generate dubbed audio"
      [] s = "merge"      -> "Failed to merge audio with video"
      [] OTHER            -> ""

RunEnded == pc \in {"done", "killed"}

\* A handler that lets the exception go without marking the record.
ExceptHandler_Reraise(rec, msg) ==
    /\ task' = rec
    /\ run_raised' = TRUE
    /\ pc' = "done"
    /\ ret' = None

\* The "except Exception as e" handler: re-read the record, mark it failed
\* with str(e).  An exception raised inside the handler escapes dubbing_task.
ExceptHandler(rec, msg) ==
    LET u == update_status(rec, "failed", None, Some(msg), now)
    IN /\ task' = u.task
       /\ run_raised' = u.raised
       /\ pc' = "done"
       /\ ret' = None

\* A statement "task.update_status(...)" inside the try block, followed by
\* the rest of the run from position next.
Commit(u, next) ==
    IF u.raised
    THEN ExceptHandler(u.task, "ValueError")
    ELSE /\ task' = u.task
         /\ pc' = next
         /\ ret' = None
         /\ UNCHANGED run_raised

\* A failure branch without its return: the run goes on at the same stage.
StageFailed_NoReturn(s) ==
    /\ Commit(update_status(task, "failed", None, Some(FailureMessage(s)), now),
              s)
    /\ UNCHANGED <<locals, download_dir>>

\* A failure branch that passes progress=0 with the failed status.
StageFailed_ResetsProgress(s) ==
    /\ Commit(update_status(task, "failed", Some(0), Some(FailureMessage(s)),
                            now), "done")
    /\ UNCHANGED <<locals, download_dir>>

\* A failure branch that reports progress for the stage that failed.
StageFailed_AdvancesProgress(s) ==
    /\ Commit(update_status(task, "failed", Some(task.progress + 10),
                            Some(FailureMessage(s)), now), "done")
    /\ UNCHANGED <<locals, download_dir>>

\* A failure branch that returns without marking the record.
StageFailed_Unmarked(s) ==
    /\ Commit([raised |-> FALSE, task |-> task], "done")
    /\ UNCHANGED <<locals, download_dir>>

\* "if not <result>: task.update_status('failed', error_message=...); return"
StageFailed(s) ==
    /\ Commit(update_status(task, "failed", None, Some(FailureMessage(s)), now),
              "done")
    /\ UNCHANGED <<locals, download_dir>>

\* task = VideoTask.query.get(task_id); task.update_status('downloading', 10);
\* os.makedirs(download_dir, exist_ok=True)
run_start ==
    /\ pc = "queued"
    /\ Commit(update_status(task, "downloading", Some(10), None, now), "download")
    /\ download_dir' = TRUE
    /\ UNCHANGED <<now, locals, call_log, cancel_pc, cancel_count, cancel_resp,
                   revokes, logVars, last_call, httpVars>>

\* The run invokes the collaborator of the stage it is at; the collaborator
\* returns or raises.
stage_call ==
    /\ pc \in StageSet
    /\ ret = None
    /\ \E r \in Results(pc, StageArg(pc)) :
         /\ ret' = Some(r)
         /\ call_log' = Append(call_log,
                [stage |-> pc, arg |-> StageArg(pc),
                 kind |-> r.kind, value |-> r.value])
    /\ UNCHANGED <<task, now, pc, locals, run_raised, download_dir,
                   cancel_pc, cancel_count, cancel_resp, revokes, logVars, last_call, httpVars>>

\* A collaborator raised: control passes to the except handler.
stage_raised ==
    /\ pc \in StageSet
    /\ ret # None
    /\ ret[1].kind = "raise"
    /\ ExceptHandler(task, ret[1].value)
    /\ UNCHANGED <<now, locals, call_log, download_dir,
                   cancel_pc, cancel_count, cancel_resp, revokes, logVars, last_call, httpVars>>

Returned(s) == pc = s /\ ret # None /\ ret[1].kind # "raise"

\* Step 1: download_video returned
after_download ==
    /\ Returned("download")
    /\ IF ret[1].kind = "falsy"
       THEN StageFailed("download")
       ELSE /\ Commit(update_status(
                        [task EXCEPT !.original_video_path = Some(ret[1].value)],
                        "processing", Some(30), None, now), "extract")
            /\ UNCHANGED <<locals, download_dir>>
    /\ UNCHANGED <<now, call_log, cancel_pc, cancel_count, cancel_resp, revokes, logVars, last_call, httpVars>>

\* Step 2a: extract_audio_from_video returned
after_extract ==
    /\ Returned("extract")
    /\ IF ret[1].kind = "falsy"
       THEN StageFailed("extract")
       ELSE /\ locals' = [locals EXCEPT !.audio_path = Some(ret[1].value)]
            /\ pc' = "preprocess"
            /\ ret' = None
            /\ UNCHANGED <<task, run_raised, download_dir>>
    /\ UNCHANGED <<now, call_log, cancel_pc, cancel_count, cancel_resp, revokes, logVars, last_call, httpVars>>

\* No fallback: the preprocessing result is used as it is.
PreprocessFallback_None(result, audio_path) == result.value

\* "if not processed_audio_path: processed_audio_path = audio_path"
PreprocessFallback(result, audio_path) ==
    IF result.kind = "falsy" THEN audio_path ELSE result.value

\* Step 2b: preprocess_audio returned
after_preprocess ==
    /\ Returned("preprocess")
    /\ LET processed == PreprocessFallback(ret[1], locals.audio_path[1]) IN
         /\ locals' = [locals EXCEPT !.processed_audio_path = Some(processed)]
         /\ Commit(update_status(
                     [task EXCEPT !.original_audio_path = Some(processed)],
                     "processing", Some(50), None, now), "transcribe")
    /\ UNCHANGED <<now, call_log, download_dir,
                   cancel_pc, cancel_count, cancel_resp, revokes, logVars, last_call, httpVars>>

\* Step 3: transcribe_audio returned
after_transcribe ==
    /\ Returned("transcribe")
    /\ IF ret[1].kind = "falsy"
       THEN StageFailed("transcribe")
       ELSE /\ Commit(update_status(
                        [task EXCEPT !.transcription_text = Some(ret[1].value)],
                        "processing", Some(70), None, now), "translate")
            /\ UNCHANGED <<locals, download_dir>>
    /\ UNCHANGED <<now, call_log, cancel_pc, cancel_count, cancel_resp, revokes, logVars, last_call, httpVars>>

\* Step 4: translate_text returned
after_translate ==
    /\ Returned("translate")
    /\ IF ret[1].kind = "falsy"
       THEN StageFailed("translate")
       ELSE /\ Commit(update_status(
                        [task EXCEPT !.translated_text = Some(ret[1].value)],
                        "processing", Some(80), None, now), "synthesize")
            /\ UNCHANGED <<locals, download_dir>>
    /\ UNCHANGED <<now, call_log, cancel_pc, cancel_count, cancel_resp, revokes, logVars, last_call, httpVars>>

\* Step 5: text_to_speech returned
after_synthesize ==
    /\ Returned("synthesize")
    /\ IF ret[1].kind = "falsy"
       THEN StageFailed("synthesize")
       ELSE /\ locals' = [locals EXCEPT !.dubbed_audio_path = Some(ret[1].value)]
            /\ Commit(update_status(
                        [task EXCEPT !.dubbed_audio_path = Some(ret[1].value)],
                        "processing", Some(90), None, now), "merge")
            /\ UNCHANGED download_dir
    /\ UNCHANGED <<now, call_log, cancel_pc, cancel_count, cancel_resp, revokes, logVars, last_call, httpVars>>

\* Step 6: merge_audio_with_video returned; on success the record is
\* completed and cleanup_temp_files(download_dir) removes the directory.
after_merge ==
    /\ Returned("merge")
    /\ IF ret[1].kind = "falsy"
       THEN StageFailed("merge")
       ELSE LET u == update_status(
                       [task EXCEPT !.final_video_path = Some(ret[1].value)],
                       "completed", Some(100), None, now)
            IN /\ Commit(u, "done")
               /\ download_dir' = (IF u.raised THEN download_dir ELSE FALSE)
               /\ UNCHANGED locals
    /\ UNCHANGED <<now, call_log, cancel_pc, cancel_count, cancel_resp, revokes, logVars, last_call, httpVars>>

dubbing_task ==
    \/ run_start
    \/ stage_call
    \/ stage_raised
    \/ after_download
    \/ after_extract
    \/ after_preprocess
    \/ after_transcribe
    \/ after_translate
    \/ after_synthesize
    \/ after_merge

----------------------------------------------------------------------------
(* start_dubbing, after dubbing_task.delay(task.id) *)

\* "task.celery_task_id = celery_task.id; db.session.commit()"
start_dubbing_commit_id ==
    /\ task.celery_task_id = None
    /\ task' = [task EXCEPT !.celery_task_id = Some("celery-1")]
    /\ UNCHANGED <<now, pc, ret, locals, call_log, run_raised, download_dir,
                   cancel_pc, cancel_count, cancel_resp, revokes, logVars, last_call, httpVars>>

----------------------------------------------------------------------------
(* cancel_task *)

TaskId == "task-1"

RequestIds == {TaskId, "unknown"}

\* The handler up to and including celery.control.revoke: look the record
\* up, reject a finished record, revoke the Celery task if its id is known.
\* revoke can raise; the handler logs that and goes on.
cancel_task_begin ==
    /\ cancel_pc = "idle"
    /\ cancel_count < MaxCancel
    /\ cancel_count' = cancel_count + 1
    /\ \E task_id \in RequestIds :
         IF task_id # TaskId
         THEN /\ cancel_resp' = Some(404)
              /\ UNCHANGED <<cancel_pc, revokes>>
         ELSE IF task.status \in TerminalStatuses
         THEN /\ cancel_resp' = Some(400)
              /\ UNCHANGED <<cancel_pc, revokes>>
         ELSE /\ cancel_pc' = "update"
              /\ IF task.celery_task_id # None
                 THEN \E sent \in BOOLEAN :
                        revokes' = (IF sent THEN revokes + 1 ELSE revokes)
                 ELSE UNCHANGED revokes
              /\ UNCHANGED cancel_resp
    /\ UNCHANGED <<task, now, pc, ret, locals, call_log, run_raised,
                   download_dir, logVars, last_call, httpVars>>

\* task.update_status('cancelled', error_message='Task cancelled by user');
\* VideoTask has no temp_directory attribute, so nothing is cleaned up.
cancel_task_update ==
    /\ cancel_pc = "update"
    /\ LET u == update_status(task, "cancelled", None,
                              Some("Task cancelled by user"), now)
       IN /\ task' = u.task
          /\ cancel_resp' = Some(IF u.raised THEN 500 ELSE 200)
    /\ cancel_pc' = "idle"
    /\ UNCHANGED <<now, pc, ret, locals, call_log, run_raised, download_dir,
                   cancel_count, revokes, logVars, last_call, httpVars>>

\* revoke(terminate=True) reaches the worker: a run still queued is
\* discarded, a run in progress is killed.  The signal is asynchronous and
\* best effort, so the run may also go on.
revoke_terminates ==
    /\ revokes > 0
    /\ ~RunEnded
    /\ pc' = "killed"
    /\ UNCHANGED <<task, now, ret, locals, call_log, run_raised, download_dir,
                   cancel_pc, cancel_count, cancel_resp, revokes, logVars, last_call, httpVars>>

\* Time passes.
Tick ==
    /\ now < MaxTime
    /\ now' = now + 1
    /\ UNCHANGED <<task, pc, ret, locals, call_log, run_raised, download_dir,
                   cancel_pc, cancel_count, cancel_resp, revokes, logVars, last_call, httpVars>>

----------------------------------------------------------------------------
(* AdaptiveMitigationService and the Outcome Log *)

Procs == {"worker-1", "worker-2"}

Pairs == BOOLEAN \X BOOLEAN

\* "for proxy_val in [True, False]: for cookies_val in [True, False]"
Order == <<<<TRUE, TRUE>>, <<TRUE, FALSE>>, <<FALSE, TRUE>>, <<FALSE, FALSE>>>>

\* A line of the log file.  kind "record": json.dumps of an outcome entry;
\* "notjson": text json.loads rejects; "nonobject": valid JSON that is not
\* an object.  ts stands for the entry's timestamp and url: 0 in the lines
\* found at the start, the number of the attempt in the entries appended.
RecordLine(proxy, cookies, success, ts) ==
    [kind |-> "record", proxy_used |-> proxy, cookies_used |-> cookies,
     success |-> success, ts |-> ts]

NotJsonLine == [kind |-> "notjson", proxy_used |-> FALSE,
                cookies_used |-> FALSE, success |-> FALSE, ts |-> 0]

NonObjectLine == [kind |-> "nonobject", proxy_used |-> FALSE,
                  cookies_used |-> FALSE, success |-> FALSE, ts |-> 0]

\* Lines a log file can hold before any worker of this run writes to it.
InitLines ==
    {RecordLine(x, c, ok, 0) : x \in BOOLEAN, c \in BOOLEAN, ok \in BOOLEAN}
      \cup {NotJsonLine, NonObjectLine}

SeqsUpTo(S, n) == UNION {[1..k -> S] : k \in 0..n}

NoLog == [exists |-> FALSE, lines |-> <<>>]

ZeroCounts == [k \in Pairs |-> [success |-> 0, total |-> 0]]

\* The loop "for line in f" of _analyze_logs from line i on: a line that is
\* not JSON is skipped (JSONDecodeError); on a line that is JSON but no
\* object, log_entry.get raises AttributeError, which ends the loop.
RECURSIVE AnalyzeLines(_, _, _)
AnalyzeLines(lines, i, counts) ==
    IF i > Len(lines)
    THEN [aborted |-> FALSE, counts |-> counts]
    ELSE IF lines[i].kind = "notjson"
    THEN AnalyzeLines(lines, i + 1, counts)
    ELSE IF lines[i].kind = "nonobject"
    THEN [aborted |-> TRUE, counts |-> counts]
    ELSE LET key == <<lines[i].proxy_used, lines[i].cookies_used>>
             c   == counts[key]
         IN AnalyzeLines(lines, i + 1,
               [counts EXCEPT ![key] =
                   [success |-> IF lines[i].success THEN c.success + 1
                                ELSE c.success,
                    total   |-> c.total + 1]])

\* _analyze_logs: the dict of success rates, a rate s/t held as <<s, t>>.
\* Only groups met in the log are keys; {} when the file is missing or the
\* analysis raised.
analyze_logs(file) ==
    IF ~file.exists
    THEN <<>>
    ELSE LET a == AnalyzeLines(file.lines, 1, ZeroCounts) IN
         IF a.aborted
         THEN <<>>
         ELSE [k \in {q \in Pairs : a.counts[q].total > 0} |->
                  <<a.counts[k].success, a.counts[k].total>>]

\* success_rates.get(key, 0.0)
RateOf(success_rates, key) ==
    IF key \in DOMAIN success_rates THEN success_rates[key] ELSE <<0, 1>>

\* A comparison that also replaces the best pair on a tie.
Better_OrEqual(rate, best_rate) ==
    rate[1] * best_rate[2] >= best_rate[1] * rate[2]

\* "if rate > best_rate", on rates s/t with t > 0
Better(rate, best_rate) ==
    rate[1] * best_rate[2] > best_rate[1] * rate[2]

\* The two nested loops of get_adaptive_params from the i-th pair on.
RECURSIVE BestFrom(_, _, _)
BestFrom(success_rates, i, best) ==
    IF i > Len(Order)
    THEN best
    ELSE LET rate == RateOf(success_rates, Order[i]) IN
         IF Better(rate, best.rate)
         THEN BestFrom(success_rates, i + 1,
                       [proxy |-> Order[i][1], cookies |-> Order[i][2],
                        rate |-> rate])
         ELSE BestFrom(success_rates, i + 1, best)

\* best_proxy_usage = False; best_cookies_usage = False; best_rate = -1
InitialBest == [proxy |-> FALSE, cookies |-> FALSE, rate |-> <<0 - 1, 1>>]

UserAgents == {"Windows", "Macintosh", "X11"}

\* Samples of random.uniform(1, 3)
SleepIntervals == {1, 2, 3}

\* get_adaptive_params on the log file as it is: every dict it can return.
get_adaptive_params(file) ==
    LET best == BestFrom(analyze_logs(file), 1, InitialBest) IN
    {[user_agent |-> ua, sleep_interval |-> sl,
      proxy_enabled |-> best.proxy, cookies_enabled |-> best.cookies] :
        ua \in UserAgents, sl \in SleepIntervals}

\* json.loads of each line, lines that are not JSON skipped
RECURSIVE LoadLines(_)
LoadLines(lines) ==
    IF lines = <<>>
    THEN <<>>
    ELSE IF Head(lines).kind = "notjson"
    THEN LoadLines(Tail(lines))
    ELSE <<Head(lines)>> \o LoadLines(Tail(lines))

\* What the file holds after new_lines were written from offset 0 over
\* old_lines: the new lines, and what of a longer old content lies beyond
\* them, whole or cut inside a line.
Overwritten(old_lines, new_lines) ==
    IF Len(old_lines) <= Len(new_lines)
    THEN {new_lines}
    ELSE {new_lines \o SubSeq(old_lines, Len(new_lines) + 1, Len(old_lines)),
          new_lines \o <<NotJsonLine>>
                    \o SubSeq(old_lines, Len(new_lines) + 2, Len(old_lines))}

IdleDownload ==
    [pc |-> "idle", ts |-> 0, adaptive |-> None, read |-> NoLog,
     logs |-> <<>>, entry |-> None]

\* What an acquisition attempt can come to, in the order of download_video:
\* extract_info returns nothing, the video is live, it is too long, no file
\* is found after the download, success, or an exception.
AttemptOutcomes ==
    {"no_info", "is_live", "too_long", "no_file", "success", "exception"}

\* The outcomes after which download_video calls _log_download_outcome.
LoggedOutcomes == {"no_info", "success", "exception"}

\* download_video up to get_adaptive_params: the engine analyses the log.
\* Of the dict it returns the worker's state keeps the two learned fields.
dv_get_adaptive_params(p) ==
    /\ downloads[p].pc = "idle"
    /\ attempts < MaxAttempts
    /\ attempts' = attempts + 1
    /\ \E a \in get_adaptive_params(log_file) :
         downloads' = [downloads EXCEPT ![p] =
             [@ EXCEPT !.pc = "attempt",
                       !.ts = attempts + 1,
                       !.adaptive = Some([proxy_enabled |-> a.proxy_enabled,
                                          cookies_enabled |-> a.cookies_enabled]),
                       !.read = log_file]]
    /\ UNCHANGED <<log_file, recorded, engine_calls, taskVars>>

\* The attempt itself.  proxy_url and cookies_file are what os.getenv gives
\* this worker.  A logged outcome enters record_outcome, which reads the
\* whole file and appends outcome_data to the list it read.
dv_attempt(p) ==
    /\ downloads[p].pc = "attempt"
    /\ \E outcome \in AttemptOutcomes, proxy_url \in BOOLEAN,
          cookies_file \in BOOLEAN :
         LET a == downloads[p].adaptive[1]
             entry == RecordLine(a.proxy_enabled /\ proxy_url,
                                 a.cookies_enabled /\ cookies_file,
                                 outcome = "success", downloads[p].ts)
         IN IF outcome \in LoggedOutcomes
            THEN downloads' = [downloads EXCEPT ![p] =
                     [pc |-> "open", ts |-> downloads[p].ts,
                      adaptive |-> downloads[p].adaptive, read |-> NoLog,
                      logs |-> (IF log_file.exists
                                THEN LoadLines(log_file.lines) ELSE <<>>)
                                 \o <<entry>>,
                      entry |-> Some(entry)]]
            ELSE downloads' = [downloads EXCEPT ![p] = IdleDownload]
    /\ UNCHANGED <<log_file, recorded, attempts, engine_calls, taskVars>>

\* record_outcome: open(self.log_file_path, 'w') creates or truncates the file
ro_open(p) ==
    /\ downloads[p].pc = "open"
    /\ log_file' = [exists |-> TRUE, lines |-> <<>>]
    /\ downloads' = [downloads EXCEPT ![p].pc = "write"]
    /\ UNCHANGED <<recorded, attempts, engine_calls, taskVars>>

\* record_outcome: the lines are written out when the file is closed, and
\* the call returns.
ro_write(p) ==
    /\ downloads[p].pc = "write"
    /\ \E lines \in Overwritten(log_file.lines, downloads[p].logs) :
         log_file' = [exists |-> TRUE, lines |-> lines]
    /\ recorded' = recorded \cup {downloads[p].entry[1]}
    /\ downloads' = [downloads EXCEPT ![p] = IdleDownload]
    /\ UNCHANGED <<attempts, engine_calls, taskVars>>

\* A caller queries the engine; of the dict returned the two learned
\* fields are kept, user_agent and sleep_interval are drawn anew each call.
engine_query ==
    /\ Len(engine_calls) < MaxEngineCalls
    /\ \E a \in get_adaptive_params(log_file) :
         engine_calls' = Append(engine_calls,
                                <<a.proxy_enabled, a.cookies_enabled>>)
    /\ UNCHANGED <<log_file, downloads, recorded, attempts, taskVars>>

LogFiles(n) ==
    {NoLog} \cup [exists : {TRUE}, lines : SeqsUpTo(InitLines, n)]

LogInit ==
    /\ log_file \in LogFiles(MaxInitLog)
    /\ downloads = [p \in Procs |-> IdleDownload]
    /\ recorded = {}
    /\ attempts = 0
    /\ engine_calls = <<>>

NextLog ==
    \/ \E p \in Procs : dv_get_adaptive_params(p)
    \/ \E p \in Procs : dv_attempt(p)
    \/ \E p \in Procs : ro_open(p)
    \/ \E p \in Procs : ro_write(p)

TaskInit ==
    /\ task = NewTask
    /\ now = 0
    /\ pc = "queued"
    /\ ret = None
    /\ locals = NoLocals
    /\ call_log = <<>>
    /\ run_raised = FALSE
    /\ download_dir = FALSE
    /\ cancel_pc = "idle"
    /\ cancel_count = 0
    /\ cancel_resp = None
    /\ revokes = 0
    /\ last_call = None
    /\ db_tasks = <<>>
    /\ celery_queue = <<>>
    /\ start_pc = [pc |-> "idle", row |-> 0, request |-> None]
    /\ http = None

Init ==
    /\ TaskInit
    /\ log_file = NoLog
    /\ downloads = [p \in Procs |-> IdleDownload]
    /\ recorded = {}
    /\ attempts = 0
    /\ engine_calls = <<>>

Next ==
    \/ run_start
    \/ stage_call
    \/ stage_raised
    \/ after_download
    \/ after_extract
    \/ after_preprocess
    \/ after_transcribe
    \/ after_translate
    \/ after_synthesize
    \/ after_merge
    \/ start_dubbing_commit_id
    \/ cancel_task_begin
    \/ cancel_task_update
    \/ revoke_terminates
    \/ Tick

Spec == Init /\ [][Next]_vars

\* A worker that has taken the run keeps executing it, and every stage
\* collaborator it invokes returns or raises.
SpecRun == Spec /\ WF_vars(dubbing_task)

\* task_acks_late=True: the job is acknowledged only when dubbing_task has
\* returned, so a worker lost after the last commit and before the
\* acknowledgement has its job put back on the queue and delivered again.
\* The new run starts at the top of dubbing_task with fresh locals, and
\* call_log records its calls.

\* Redeliveries of the job that are followed.
MaxRedeliver == 1

redeliver ==
    /\ pc = "done"
    /\ Len(celery_queue) < MaxRedeliver
    /\ celery_queue' = Append(celery_queue, TaskId)
    /\ pc' = "queued"
    /\ ret' = None
    /\ locals' = NoLocals
    /\ call_log' = <<>>
    /\ run_raised' = FALSE
    /\ UNCHANGED <<task, now, download_dir, cancel_pc, cancel_count,
                   cancel_resp, revokes, logVars, last_call, db_tasks,
                   start_pc, http>>

NextRedeliver ==
    \/ Next
    \/ redeliver

SpecRedeliver == Init /\ [][NextRedeliver]_vars

InitLog == TaskInit /\ LogInit

SpecLog == InitLog /\ [][NextLog]_vars

InitEngine ==
    /\ TaskInit
    /\ log_file \in LogFiles(MaxLogLines)
    /\ downloads = [p \in Procs |-> IdleDownload]
    /\ recorded = {}
    /\ attempts = 0
    /\ engine_calls = <<>>

NextEngine == engine_query

SpecEngine == InitEngine /\ [][NextEngine]_vars

----------------------------------------------------------------------------
(* update_status called directly on one record, with any arguments *)

\* Status arguments: the valid ones and one that is not.
StatusArgs == valid_statuses \cup {"archived"}

\* Progress arguments: absent, in range, and out of range on either side.
ProgressArgs == {None} \cup {Some(n) : n \in {0 - 1, 0, 50, 100, 101}}

MessageArgs == {None, Some("boom")}

\* The number of direct calls made so far.
CallsMade == IF last_call = None THEN 0 ELSE last_call[1].n

\* One call task.update_status(status, progress, error_message).  task is the
\* object the caller holds: what the call assigned before raising stays on it.
update_status_call ==
    /\ CallsMade < MaxCalls
    /\ \E status \in StatusArgs, progress \in ProgressArgs,
          error_message \in MessageArgs :
         LET u == update_status(task, status, progress, error_message, now) IN
         /\ task' = u.task
         /\ last_call' =
               Some([n |-> CallsMade + 1,
                     status |-> status, progress |-> progress,
                     error_message |-> error_message, raised |-> u.raised])
    /\ UNCHANGED <<now, pc, ret, locals, call_log, run_raised, download_dir,
                   cancel_pc, cancel_count, cancel_resp, revokes, logVars,
                   httpVars>>

NextRecord ==
    \/ update_status_call
    \/ Tick

SpecRecord == Init /\ [][NextRecord]_vars

----------------------------------------------------------------------------
(* update_status statement by statement: task is the object in memory,    *)
(* db_tasks[1] the row as committed to the database                        *)

\* A session that writes every assignment through to the database.
PersistOn_EveryAssignment(at) ==
    TRUE

\* The statements of update_status after which the row is committed:
\* db.session.commit() is the last one
PersistOn(at) ==
    at = "commit"

\* The row after the statement at position at has run
Persisted(at, self) ==
    IF PersistOn(at) THEN [db_tasks EXCEPT ![1].rec = self] ELSE db_tasks

CallInProgress ==
    IF last_call = None THEN FALSE
    ELSE last_call[1].at \notin {"returned", "raised"}

\* The call is at position at
CallAt(at) ==
    IF last_call = None THEN FALSE ELSE last_call[1].at = at

\* The call moves on to position at
MoveTo(at) ==
    last_call' = Some([last_call[1] EXCEPT !.at = at])

\* The call ends with ValueError
Raise ==
    last_call' = Some([last_call[1] EXCEPT !.at = "raised", !.raised = TRUE])

\* task.update_status(status, progress, error_message) is called
us_call ==
    /\ ~CallInProgress
    /\ CallsMade < MaxCalls
    /\ \E status \in StatusArgs, progress \in ProgressArgs,
          error_message \in MessageArgs :
         last_call' =
            Some([n |-> CallsMade + 1,
                  status |-> status, progress |-> progress,
                  error_message |-> error_message, raised |-> FALSE,
                  at |-> "status"])
    /\ UNCHANGED <<task, db_tasks>>
    /\ UNCHANGED <<now, pc, ret, locals, call_log, run_raised, download_dir,
                   cancel_pc, cancel_count, cancel_resp, revokes, logVars,
                   celery_queue, start_pc, http>>

\* "if status not in valid_statuses: raise"; "self.status = status"
us_status ==
    /\ CallAt("status")
    /\ IF last_call[1].status \notin valid_statuses
       THEN /\ Raise
            /\ UNCHANGED <<task, db_tasks>>
       ELSE /\ task' = [task EXCEPT !.status = last_call[1].status]
            /\ db_tasks' = Persisted("status", task')
            /\ MoveTo("progress")
    /\ UNCHANGED <<now, pc, ret, locals, call_log, run_raised, download_dir,
                   cancel_pc, cancel_count, cancel_resp, revokes, logVars,
                   celery_queue, start_pc, http>>

\* "if progress is not None: ... raise / self.progress = progress"
us_progress ==
    /\ CallAt("progress")
    /\ IF last_call[1].progress = None
       THEN /\ MoveTo("error_message")
            /\ UNCHANGED <<task, db_tasks>>
       ELSE IF ~ValidProgress(last_call[1].progress[1])
       THEN /\ Raise
            /\ UNCHANGED <<task, db_tasks>>
       ELSE /\ task' = [task EXCEPT !.progress = last_call[1].progress[1]]
            /\ db_tasks' = Persisted("progress", task')
            /\ MoveTo("error_message")
    /\ UNCHANGED <<now, pc, ret, locals, call_log, run_raised, download_dir,
                   cancel_pc, cancel_count, cancel_resp, revokes, logVars,
                   celery_queue, start_pc, http>>

\* "if error_message is not None: self.error_message = error_message"
us_error_message ==
    /\ CallAt("error_message")
    /\ task' = (IF last_call[1].error_message # None
                THEN [task EXCEPT
                        !.error_message = last_call[1].error_message]
                ELSE task)
    /\ db_tasks' = Persisted("error_message", task')
    /\ MoveTo("timestamps")
    /\ UNCHANGED <<now, pc, ret, locals, call_log, run_raised, download_dir,
                   cancel_pc, cancel_count, cancel_resp, revokes, logVars,
                   celery_queue, start_pc, http>>

\* The two timestamp blocks and "self.updated_at = datetime.utcnow()"
us_timestamps ==
    /\ CallAt("timestamps")
    /\ LET s4 == IF SetsStartedAt(task, last_call[1].status)
                 THEN [task EXCEPT !.started_at = Some(now)] ELSE task
           s5 == IF last_call[1].status = "completed"
                 THEN OnCompleted(s4, now) ELSE s4
       IN task' = [s5 EXCEPT !.updated_at = now]
    /\ db_tasks' = Persisted("timestamps", task')
    /\ MoveTo("commit")
    /\ UNCHANGED <<now, pc, ret, locals, call_log, run_raised, download_dir,
                   cancel_pc, cancel_count, cancel_resp, revokes, logVars,
                   celery_queue, start_pc, http>>

\* db.session.commit()
us_commit ==
    /\ CallAt("commit")
    /\ db_tasks' = Persisted("commit", task)
    /\ MoveTo("returned")
    /\ UNCHANGED task
    /\ UNCHANGED <<now, pc, ret, locals, call_log, run_raised, download_dir,
                   cancel_pc, cancel_count, cancel_resp, revokes, logVars,
                   celery_queue, start_pc, http>>

InitCommit ==
    /\ task = NewTask
    /\ db_tasks = <<[id |-> TaskId, rec |-> NewTask]>>
    /\ last_call = None
    /\ now \in 0..MaxTime
    /\ pc = "queued"
    /\ ret = None
    /\ locals = NoLocals
    /\ call_log = <<>>
    /\ run_raised = FALSE
    /\ download_dir = FALSE
    /\ cancel_pc = "idle"
    /\ cancel_count = 0
    /\ cancel_resp = None
    /\ revokes = 0
    /\ celery_queue = <<>>
    /\ start_pc = [pc |-> "idle", row |-> 0, request |-> None]
    /\ http = None
    /\ log_file = NoLog
    /\ downloads = [p \in Procs |-> IdleDownload]
    /\ recorded = {}
    /\ attempts = 0
    /\ engine_calls = <<>>

NextCommit ==
    \/ us_call
    \/ us_status
    \/ us_progress
    \/ us_error_message
    \/ us_timestamps
    \/ us_commit

SpecCommit == InitCommit /\ [][NextCommit]_vars

----------------------------------------------------------------------------
(* The HTTP endpoints of dubbing_bp: start_dubbing, get_task_status and   *)
(* cancel_task as requests reach them through their routes                *)

DigitChars == <<"0", "1", "2", "3", "4", "5", "6", "7", "8", "9">>

Digits == {DigitChars[i] : i \in 1..Len(DigitChars)}

\* The '<int:task_id>' converter of the routes matches the text \d+ only.
IntegerConverterMatches(segment) ==
    /\ segment # <<>>
    /\ \A i \in 1..Len(segment) : segment[i] \in Digits

DigitValue(c) == (CHOOSE i \in 1..Len(DigitChars) : DigitChars[i] = c) - 1

\* int(value), on a path segment the converter matched
RECURSIVE ToInt(_)
ToInt(segment) ==
    IF segment = <<>>
    THEN 0
    ELSE 10 * ToInt(SubSeq(segment, 1, Len(segment) - 1))
           + DigitValue(segment[Len(segment)])

\* The decimal text of a natural number
RECURSIVE IntText(_)
IntText(n) ==
    IF n < 10
    THEN <<DigitChars[n + 1]>>
    ELSE IntText(n \div 10) \o <<DigitChars[(n % 10) + 1]>>

\* str(uuid.uuid4()), the default of VideoTask.id, for the n-th row: groups
\* of hexadecimal digits separated by hyphens (shortened to two groups).
Uuid(n) ==
    IF n % 2 = 1
    THEN <<"1", "2", "-", "4", DigitChars[(n % 10) + 1]>>
    ELSE <<"a", "f", "-", "4", DigitChars[(n % 10) + 1]>>

\* The ids a client puts in a path: the ids start_dubbing can return, a
\* number, and a text that is no id of a row.
PathSegments ==
    {Uuid(n) : n \in 1..MaxStart}
      \cup {<<"4", "2">>, <<"n", "o", "-", "i", "d">>}

\* VideoTask.query.get(task_id) with the int the route passes: the row whose
\* id reads as that number if there is one, no row otherwise; a database
\* that does not compare text with integer fails the query instead.
QueryGetInt(task_id) ==
    {IF \E i \in 1..Len(db_tasks) : db_tasks[i].id = IntText(task_id)
     THEN [kind |-> "row",
           row |-> CHOOSE i \in 1..Len(db_tasks) :
                      db_tasks[i].id = IntText(task_id)]
     ELSE [kind |-> "none", row |-> 0],
     [kind |-> "error", row |-> 0]}

Response(route, request, code, error, body) ==
    Some([route |-> route, request |-> request, code |-> code,
          error |-> error, body |-> body])

\* The answer of the application's 404 handler to a path no route matches
RouteNotFound(route, segment) ==
    Response(route, [segment |-> segment], 404, "Resource not found", None)

\* int(os.getenv('MAX_VIDEO_DURATION', 3600)) with the variable unset
MaxVideoDuration == 3600

\* A URL is kept as what validate_video_url's pattern looks at: the host's
\* name and top-level domain, and how many characters outside "&=%?" follow
\* the slash once the optional watch?v= prefix is consumed.
GoodUrl == [name |-> "youtube", tld |-> "com", tail |-> 11]

Urls ==
    {GoodUrl,
     [name |-> "example", tld |-> "com", tail |-> 11],
     [name |-> "youtube", tld |-> "com", tail |-> 5]}

validate_video_url(url) ==
    /\ url.name \in {"youtube", "youtu", "youtube-nocookie"}
    /\ url.tld \in {"com", "be"}
    /\ url.tail >= 11

\* request.get_json(): no JSON body, or an object whose keys may be absent
ValidPayload ==
    [youtube_url |-> Some(GoodUrl), target_language |-> Some("es"),
     user_id |-> Some(7)]

Payloads ==
    {None,
     Some(ValidPayload),
     Some([ValidPayload EXCEPT !.youtube_url = None]),
     Some([ValidPayload EXCEPT !.target_language = None]),
     Some([ValidPayload EXCEPT !.user_id = None]),
     Some([youtube_url |-> None, target_language |-> None, user_id |-> None])}
      \cup {Some([ValidPayload EXCEPT !.youtube_url = Some(u)]) : u \in Urls}

\* get_video_info: None when the video cannot be read, else the duration
\* yt-dlp reports, which is None for a video without a known length
VideoInfos ==
    {None} \cup {Some([duration |-> d]) :
                    d \in {None, Some(0), Some(MaxVideoDuration),
                           Some(MaxVideoDuration + 1)}}

\* A check of the required keys that looks at youtube_url only.
MissingRequired_UrlOnly(data) ==
    data.youtube_url = None

\* not all([youtube_url, target_language, user_id]) on the object data
MissingRequired(data) ==
    \/ data.youtube_url = None
    \/ data.target_language = None
    \/ data.user_id = None

\* The checks of start_dubbing in their order: the status code and error of
\* the first one that fails, None when the request passes them all.  A
\* duration of None makes the comparison raise, which the handler answers
\* with 500.
Rejection(data, info) ==
    IF data = None \/ data = Some([youtube_url |-> None,
                                   target_language |-> None,
                                   user_id |-> None])
    THEN Some([code |-> 400, error |-> "No JSON data provided"])
    ELSE IF MissingRequired(data[1])
    THEN Some([code |-> 400,
               error |->
                 "youtube_url, target_language, and user_id are required"])
    ELSE IF ~validate_video_url(data[1].youtube_url[1])
    THEN Some([code |-> 400, error |-> "Invalid YouTube URL format"])
    ELSE IF info = None
    THEN Some([code |-> 400,
               error |-> "Unable to access video or video not found"])
    ELSE IF info[1].duration = None
    THEN Some([code |-> 500, error |-> "Internal server error"])
    ELSE IF info[1].duration[1] > MaxVideoDuration
    THEN Some([code |-> 400, error |-> "Video too long"])
    ELSE None

\* get_video_info is reached only by a request that passed the earlier checks
InfosFor(data) ==
    IF Rejection(data, Some([duration |-> Some(0)])) = None
    THEN VideoInfos
    ELSE {None}

\* A commit that loses the rows added to the session.
session_commit_Lost(rows, added) ==
    rows

\* db.session.add(...) followed by db.session.commit()
session_commit(rows, added) ==
    rows \o added

\* The row whose id is task_id, 0 when there is none
RowOf(task_id) ==
    IF \E i \in 1..Len(db_tasks) : db_tasks[i].id = task_id
    THEN CHOOSE i \in 1..Len(db_tasks) : db_tasks[i].id = task_id
    ELSE 0

StartIdle == [pc |-> "idle", row |-> 0, request |-> None]

\* start_dubbing up to the first commit: a request that fails a check is
\* answered at once; one that passes them has its record added and
\* committed, unless the commit fails (a user_id that names no user on a
\* database enforcing the foreign key), which is answered with 500.
sd_validate_create ==
    /\ start_pc.pc = "idle"
    /\ Len(db_tasks) < MaxStart
    /\ \E data \in Payloads : \E info \in InfosFor(data) :
         LET request == [data |-> data, info |-> info]
             rejected == Rejection(data, info)
         IN IF rejected # None
            THEN /\ http' = Response("start-dubbing", request,
                                     rejected[1].code, rejected[1].error, None)
                 /\ UNCHANGED <<db_tasks, start_pc>>
            ELSE \E committed \in BOOLEAN :
                   IF committed
                   THEN /\ db_tasks' =
                             session_commit(db_tasks,
                                 <<[id |-> Uuid(Len(db_tasks) + 1),
                                    rec |-> NewTask]>>)
                        /\ start_pc' = [pc |-> "enqueue",
                                        row |-> Len(db_tasks) + 1,
                                        request |-> Some(request)]
                        /\ UNCHANGED http
                   ELSE /\ http' = Response("start-dubbing", request, 500,
                                            "Internal server error", None)
                        /\ UNCHANGED <<db_tasks, start_pc>>
    /\ UNCHANGED celery_queue
    /\ UNCHANGED <<task, now, pc, ret, locals, call_log, run_raised,
                   download_dir, cancel_pc, cancel_count, cancel_resp,
                   revokes, last_call, logVars>>

\* dubbing_task.delay(task.id): the run is queued under the id of the
\* committed record, or the broker cannot be reached and the handler
\* answers 500 (the rollback has nothing to undo).
sd_enqueue ==
    /\ start_pc.pc = "enqueue"
    /\ \E queued \in BOOLEAN :
         IF queued
         THEN /\ celery_queue' =
                   Append(celery_queue,
                          [task_id |-> Uuid(start_pc.row), at |-> 1])
              /\ start_pc' = [start_pc EXCEPT !.pc = "store_id"]
              /\ UNCHANGED http
         ELSE /\ http' = Response("start-dubbing", start_pc.request[1],
                                  500, "Internal server error", None)
              /\ start_pc' = StartIdle
              /\ UNCHANGED celery_queue
    /\ UNCHANGED db_tasks
    /\ UNCHANGED <<task, now, pc, ret, locals, call_log, run_raised,
                   download_dir, cancel_pc, cancel_count, cancel_resp,
                   revokes, last_call, logVars>>

\* task.celery_task_id = celery_task.id, the second commit and the 202
\* answer that carries task.id
sd_store_id ==
    /\ start_pc.pc = "store_id"
    /\ db_tasks' = [db_tasks EXCEPT
                      ![start_pc.row].rec.celery_task_id = Some("celery-1")]
    /\ http' = Response("start-dubbing",
                        start_pc.request[1],
                        202, "", Some(db_tasks[start_pc.row].id))
    /\ start_pc' = StartIdle
    /\ UNCHANGED celery_queue
    /\ UNCHANGED <<task, now, pc, ret, locals, call_log, run_raised,
                   download_dir, cancel_pc, cancel_count, cancel_resp,
                   revokes, last_call, logVars>>

\* The stages of dubbing_task whose failure ends the run, and the status and
\* progress it commits before each of them
RunStages ==
    <<"download", "extract", "transcribe", "translate", "synthesize", "merge">>

RunCheckpoints ==
    <<[status |-> "downloading", progress |-> 10],
      [status |-> "processing", progress |-> 30],
      [status |-> "processing", progress |-> 50],
      [status |-> "processing", progress |-> 70],
      [status |-> "processing", progress |-> 80],
      [status |-> "processing", progress |-> 90]>>

RunOver == Len(RunStages) + 2

\* One commit of a queued run on its record.  At position k the run has
\* made k-1 checkpoint commits and stage k-1, if any, has returned: it
\* succeeded and the run commits the next checkpoint (completed after the
\* last stage), or it failed and the run commits failed and ends.
worker_commit ==
    /\ \E k \in 1..Len(celery_queue) :
         LET run == celery_queue[k]
             row == RowOf(run.task_id)
         IN /\ run.at < RunOver
            /\ row # 0
            /\ \E ok \in (IF run.at = 1 THEN {TRUE} ELSE BOOLEAN) :
                 IF ~ok
                 THEN /\ db_tasks' =
                           [db_tasks EXCEPT ![row].rec =
                              update_status(@, "failed", None,
                                  Some(FailureMessage(RunStages[run.at - 1])),
                                  now).task]
                      /\ celery_queue' =
                           [celery_queue EXCEPT ![k].at = RunOver]
                 ELSE IF run.at = RunOver - 1
                 THEN /\ db_tasks' =
                           [db_tasks EXCEPT ![row].rec =
                              update_status(@, "completed", Some(100), None,
                                            now).task]
                      /\ celery_queue' =
                           [celery_queue EXCEPT ![k].at = RunOver]
                 ELSE /\ db_tasks' =
                           [db_tasks EXCEPT ![row].rec =
                              update_status(@, RunCheckpoints[run.at].status,
                                  Some(RunCheckpoints[run.at].progress),
                                  None, now).task]
                      /\ celery_queue' =
                           [celery_queue EXCEPT ![k].at = run.at + 1]
    /\ UNCHANGED <<start_pc, http>>
    /\ UNCHANGED <<task, now, pc, ret, locals, call_log, run_raised,
                   download_dir, cancel_pc, cancel_count, cancel_resp,
                   revokes, last_call, logVars>>

\* GET /task-status/<int:task_id>
http_get_task_status ==
    /\ \E segment \in PathSegments :
         IF ~IntegerConverterMatches(segment)
         THEN http' = RouteNotFound("task-status", segment)
         ELSE \E q \in QueryGetInt(ToInt(segment)) :
                http' =
                  CASE q.kind = "error" ->
                         Response("task-status", [segment |-> segment], 500,
                                  "Internal server error", None)
                    [] q.kind = "none" ->
                         Response("task-status", [segment |-> segment], 404,
                                  "Task not found", None)
                    [] q.kind = "row" ->
                         Response("task-status", [segment |-> segment], 200, "",
                                  Some([id |-> db_tasks[q.row].id,
                                        status |-> db_tasks[q.row].rec.status,
                                        progress |->
                                            db_tasks[q.row].rec.progress]))
    /\ UNCHANGED <<db_tasks, celery_queue, start_pc>>
    /\ UNCHANGED <<task, now, pc, ret, locals, call_log, run_raised,
                   download_dir, cancel_pc, cancel_count, cancel_resp,
                   revokes, last_call, logVars>>

\* The body of cancel_task on the row it found, without interleaving.
CancelFound(segment, row) ==
    LET rec == db_tasks[row].rec IN
    IF rec.status \in TerminalStatuses
    THEN /\ http' = Response("cancel-task", [segment |-> segment], 400,
                             "Task already", Some(rec.status))
         /\ UNCHANGED <<db_tasks, revokes>>
    ELSE LET u == update_status(rec, "cancelled", None,
                                Some("Task cancelled by user"), now)
         IN /\ db_tasks' = [db_tasks EXCEPT ![row].rec = u.task]
            /\ http' = IF u.raised
                       THEN Response("cancel-task", [segment |-> segment], 500,
                                     "Internal server error", None)
                       ELSE Response("cancel-task", [segment |-> segment], 200, "",
                                     Some("cancelled"))
            /\ IF rec.celery_task_id # None
               THEN \E sent \in BOOLEAN :
                      revokes' = (IF sent THEN revokes + 1 ELSE revokes)
               ELSE UNCHANGED revokes

\* POST /cancel-task/<int:task_id>
http_cancel_task ==
    /\ \E segment \in PathSegments :
         IF ~IntegerConverterMatches(segment)
         THEN /\ http' = RouteNotFound("cancel-task", segment)
              /\ UNCHANGED <<db_tasks, revokes>>
         ELSE \E q \in QueryGetInt(ToInt(segment)) :
                IF q.kind = "error"
                THEN /\ http' = Response("cancel-task", [segment |-> segment], 500,
                                         "Internal server error", None)
                     /\ UNCHANGED <<db_tasks, revokes>>
                ELSE IF q.kind = "none"
                THEN /\ http' = Response("cancel-task", [segment |-> segment], 404,
                                         "Task not found", None)
                     /\ UNCHANGED <<db_tasks, revokes>>
                ELSE CancelFound(segment, q.row)
    /\ UNCHANGED <<celery_queue, start_pc>>
    /\ UNCHANGED <<task, now, pc, ret, locals, call_log, run_raised,
                   download_dir, cancel_pc, cancel_count, cancel_resp,
                   last_call, logVars>>

NextHttp ==
    \/ sd_validate_create
    \/ sd_enqueue
    \/ sd_store_id
    \/ worker_commit
    \/ http_get_task_status
    \/ http_cancel_task

SpecHttp == Init /\ [][NextHttp]_vars

----------------------------------------------------------------------------
(* YouTubeService.download_video, one call step by step *)

Downloader == "worker-1"

\* os.getenv('PROXY_URL'), os.getenv('YOUTUBE_COOKIES_FILE') and whether
\* the cookies file exists
Environments ==
    {[PROXY_URL |-> x, YOUTUBE_COOKIES_FILE |-> c, cookies_exist |-> e] :
        x \in {None, Some("http://proxy:8080")},
        c \in {None, Some("cookies.txt")},
        e \in BOOLEAN}

\* URLs handed to download_video
DownloadUrls ==
    {[name |-> "youtube", tld |-> "com", tail |-> 11],
     [name |-> "example", tld |-> "com", tail |-> 11]}

\* A call about to start in a process with environment env
DownloadCall(env) ==
    [pc |-> "ready", ts |-> 1, adaptive |-> None, read |-> NoLog,
     logs |-> <<>>, entry |-> None, env |-> env, ydl_opts |-> None,
     events |-> <<>>, result |-> None]

\* A delay that ignores what the engine returned.
SleepArg_Fixed(adaptive_params) ==
    1

\* adaptive_params.get('sleep_interval', random.uniform(1, 3)): the key is
\* always in the dict get_adaptive_params returns
SleepArg(adaptive_params) ==
    adaptive_params.sleep_interval

\* The ydl_opts dict: the keys taken from the engine, 'proxy' and
\* 'cookiefile' present only under the conditions of the two if statements
YdlOpts(adaptive_params, env) ==
    [user_agent |-> adaptive_params.user_agent,
     sleep_interval |-> SleepArg(adaptive_params),
     proxy |-> IF adaptive_params.proxy_enabled /\ env.PROXY_URL # None
               THEN env.PROXY_URL ELSE None,
     cookiefile |-> IF /\ adaptive_params.cookies_enabled
                       /\ env.YOUTUBE_COOKIES_FILE # None
                       /\ env.cookies_exist
                    THEN env.YOUTUBE_COOKIES_FILE ELSE None]

\* _log_download_outcome up to the read of record_outcome: the entry built
\* from ydl_opts ({} when the call failed before it was built) joins the
\* lines read from the log.
LogOutcome(call, success) ==
    LET entry == RecordLine(call.ydl_opts # None /\ call.ydl_opts[1].proxy # None,
                            call.ydl_opts # None
                              /\ call.ydl_opts[1].cookiefile # None,
                            success, call.ts)
    IN [call EXCEPT !.pc = "open",
                    !.result = Some(IF success THEN "info" ELSE "none"),
                    !.logs = (IF log_file.exists
                              THEN LoadLines(log_file.lines) ELSE <<>>)
                               \o <<entry>>,
                    !.entry = Some(entry)]

Event(op, arg) == [op |-> op, arg |-> arg]

\* validate_video_url and os.makedirs: an invalid URL returns None at once,
\* a makedirs failure goes to the except handler with no ydl_opts
dl_begin ==
    /\ downloads[Downloader].pc = "ready"
    /\ \E url \in DownloadUrls, made \in BOOLEAN :
         downloads' = [downloads EXCEPT ![Downloader] =
            IF ~validate_video_url(url)
            THEN [@ EXCEPT !.pc = "returned", !.result = Some("none")]
            ELSE IF ~made
            THEN LogOutcome(@, FALSE)
            ELSE [@ EXCEPT !.pc = "query"]]
    /\ UNCHANGED <<log_file, recorded, attempts, engine_calls, taskVars>>

\* adaptive_params = self.adaptive_mitigation_service.get_adaptive_params()
dl_get_adaptive_params ==
    /\ downloads[Downloader].pc = "query"
    /\ \E a \in get_adaptive_params(log_file) :
         downloads' = [downloads EXCEPT ![Downloader] =
            [@ EXCEPT !.pc = "sleep",
                      !.adaptive = Some(a),
                      !.read = log_file,
                      !.events = Append(@, Event("get_adaptive_params",
                                                 Some(a.sleep_interval)))]]
    /\ UNCHANGED <<log_file, recorded, attempts, engine_calls, taskVars>>

\* time.sleep(...)
dl_sleep ==
    /\ downloads[Downloader].pc = "sleep"
    /\ downloads' = [downloads EXCEPT ![Downloader] =
          [@ EXCEPT !.pc = "configure",
                    !.events = Append(@, Event("sleep",
                                   Some(SleepArg(
                                       downloads[Downloader].adaptive[1]))))]]
    /\ UNCHANGED <<log_file, recorded, attempts, engine_calls, taskVars>>

\* ydl_opts = {...}, the proxy and the cookies
dl_configure ==
    /\ downloads[Downloader].pc = "configure"
    /\ downloads' = [downloads EXCEPT ![Downloader] =
          [@ EXCEPT !.pc = "extract",
                    !.ydl_opts =
                        Some(YdlOpts(downloads[Downloader].adaptive[1],
                                     downloads[Downloader].env))]]
    /\ UNCHANGED <<log_file, recorded, attempts, engine_calls, taskVars>>

\* info = ydl.extract_info(url, download=False) and the checks on info
dl_extract_info ==
    /\ downloads[Downloader].pc = "extract"
    /\ \E outcome \in {"no_info", "is_live", "too_long", "ok", "exception"} :
         LET called == [downloads[Downloader] EXCEPT
                           !.events = Append(@, Event("extract_info", None))]
         IN downloads' = [downloads EXCEPT ![Downloader] =
               CASE outcome \in {"no_info", "exception"} ->
                      LogOutcome(called, FALSE)
                 [] outcome \in {"is_live", "too_long"} ->
                      [called EXCEPT !.pc = "returned",
                                     !.result = Some("none")]
                 [] outcome = "ok" -> [called EXCEPT !.pc = "download"]]
    /\ UNCHANGED <<log_file, recorded, attempts, engine_calls, taskVars>>

\* ydl.download([url]) and the search for the downloaded file
dl_download ==
    /\ downloads[Downloader].pc = "download"
    /\ \E outcome \in {"no_file", "success", "exception"} :
         LET called == [downloads[Downloader] EXCEPT
                           !.events = Append(@, Event("download", None))]
         IN downloads' = [downloads EXCEPT ![Downloader] =
               CASE outcome = "exception" -> LogOutcome(called, FALSE)
                 [] outcome = "no_file" ->
                      [called EXCEPT !.pc = "returned",
                                     !.result = Some("none")]
                 [] outcome = "success" -> LogOutcome(called, TRUE)]
    /\ UNCHANGED <<log_file, recorded, attempts, engine_calls, taskVars>>

\* record_outcome of the same call: the file is opened for writing
dl_record_open ==
    /\ downloads[Downloader].pc = "open"
    /\ log_file' = [exists |-> TRUE, lines |-> <<>>]
    /\ downloads' = [downloads EXCEPT ![Downloader].pc = "write"]
    /\ UNCHANGED <<recorded, attempts, engine_calls, taskVars>>

\* record_outcome writes the lines and download_video returns
dl_record_write ==
    /\ downloads[Downloader].pc = "write"
    /\ log_file' = [exists |-> TRUE, lines |-> downloads[Downloader].logs]
    /\ recorded' = recorded \cup {downloads[Downloader].entry[1]}
    /\ downloads' = [downloads EXCEPT ![Downloader].pc = "returned"]
    /\ UNCHANGED <<attempts, engine_calls, taskVars>>

InitDownload ==
    /\ TaskInit
    /\ log_file \in LogFiles(MaxInitLog)
    /\ \E env \in Environments :
         downloads = [p \in Procs |->
                        IF p = Downloader THEN DownloadCall(env)
                        ELSE IdleDownload]
    /\ recorded = {}
    /\ attempts = 0
    /\ engine_calls = <<>>

NextDownload ==
    \/ dl_begin
    \/ dl_get_adaptive_params
    \/ dl_sleep
    \/ dl_configure
    \/ dl_extract_info
    \/ dl_download
    \/ dl_record_open
    \/ dl_record_write

SpecDownload == InitDownload /\ [][NextDownload]_vars

----------------------------------------------------------------------------
(* Properties of dubbing_task, cancel_task and update_status *)

FatalStages == StageSet \ {"preprocess"}

BetweenStages == pc \in StageSet /\ ret = None

\* The run itself takes a step from a state where a collaborator has
\* returned (a worker killed by a revoke takes none).
RunHandlesReturn == ret # None /\ pc' # pc /\ pc' # "killed"

LastCall == call_log[Len(call_log)]

CallsOf(s) == {i \in 1..Len(call_log) : call_log[i].stage = s}

\* C1: once a cancellation request has set the record to cancelled while the
\* run is between stages, the run invokes no further stage collaborator and
\* the record's status stays cancelled.
C1_CancelledRunStops ==
    [][(task.status = "cancelled" /\ BetweenStages)
         => (call_log' = call_log /\ task'.status = "cancelled")]_vars

\* C2: no transition is applied to a record whose status is completed,
\* failed or cancelled: its status, progress and error message stay as they are.
C2_TerminalRecordUnchanged ==
    [][task.status \in {"completed", "failed", "cancelled"}
         => /\ task'.status = task.status
            /\ task'.progress = task.progress
            /\ task'.error_message = task.error_message]_vars

\* The message each fatal stage is expected to leave on the record.
ExpectedFailureText(s) ==
    CASE s = "download"   -> "Failed to download video"
      [] s = "extract"    -> "Failed to extract audio"
      [] s = "transcribe" -> "Failed to transcribe audio"
      [] s = "translate"  -> "Failed to translate text"
      [] s = "synthesize" -> "Failed to generate dubbed audio"
      [] s = "merge"      -> "Failed to merge audio with video"

\* C3: when the collaborator of a fatal stage reports failure, the run ends
\* with the record failed and a message naming that stage; an ended run
\* invokes no collaborator, and no stage is invoked twice in a run.
C3_StageFailureEndsRun ==
    [][/\ \A s \in FatalStages :
            (Returned(s) /\ ret[1].kind = "falsy" /\ RunHandlesReturn)
              => /\ pc' = "done"
                 /\ ~run_raised'
                 /\ task'.status = "failed"
                 /\ task'.error_message = Some(ExpectedFailureText(s))
                 /\ \A s2 \in FatalStages \ {s} :
                        ExpectedFailureText(s2) # ExpectedFailureText(s)
       /\ RunEnded => call_log' = call_log
       /\ call_log' # call_log
            => /\ Len(call_log') = Len(call_log) + 1
               /\ \A i \in 1..Len(call_log) :
                      /\ call_log'[i] = call_log[i]
                      /\ call_log[i].stage # call_log'[Len(call_log')].stage
      ]_vars

\* A run ended by a failed merge, after six successful stages.
C3_Witness ==
    /\ pc = "done"
    /\ Len(call_log) = Len(Stages)
    /\ LastCall.stage = "merge"
    /\ LastCall.kind = "falsy"
    /\ task.status = "failed"
    /\ task.error_message = Some("Failed to merge audio with video")

AllStagesSucceeded ==
    /\ Len(call_log) = Len(Stages)
    /\ \A i \in 1..Len(call_log) :
          call_log[i].stage = Stages[i] /\ call_log[i].kind = "ok"

\* C4: a run whose seven collaborators all succeeded, with no cancellation
\* requested, ends with the record completed, progress 100, completed_at set
\* and processing_time the whole seconds from started_at to completed_at,
\* which is not negative.
C4_SuccessfulRunCompletes ==
    (pc = "done" /\ AllStagesSucceeded /\ cancel_count = 0)
      => /\ task.status = "completed"
         /\ task.progress = 100
         /\ task.completed_at # None
         /\ task.started_at # None
         /\ task.processing_time # None
         /\ task.processing_time[1] >= 0
         /\ task.processing_time[1] * TicksPerSecond
              <= task.completed_at[1] - task.started_at[1]
         /\ task.completed_at[1] - task.started_at[1]
              < (task.processing_time[1] + 1) * TicksPerSecond

\* A successful run that took at least one second.
C4_Witness ==
    /\ pc = "done"
    /\ AllStagesSucceeded
    /\ cancel_count = 0
    /\ task.status = "completed"
    /\ task.processing_time # None
    /\ task.processing_time[1] >= 1

\* C5: when a stage collaborator raises, the run ends without the exception
\* leaving dubbing_task, with the record failed and error_message = str(e).
C5_ExceptionMarksFailed ==
    [][(pc \in StageSet /\ ret # None /\ ret[1].kind = "raise"
          /\ RunHandlesReturn)
         => /\ pc' = "done"
            /\ ~run_raised'
            /\ task'.status = "failed"
            /\ task'.error_message = Some(ret[1].value)]_vars

\* A run ended by an exception of the translation collaborator.
C5_Witness ==
    /\ pc = "done"
    /\ call_log # <<>>
    /\ LastCall.stage = "translate"
    /\ LastCall.kind = "raise"
    /\ task.status = "failed"
    /\ task.error_message = Some("connection reset")

\* C6: when extraction succeeded and preprocessing failed, the run goes on to
\* transcription without failing the record, and the transcription
\* collaborator receives the path extraction returned.
C6_PreprocessFailureSwallowed ==
    [][/\ (Returned("preprocess") /\ ret[1].kind = "falsy" /\ RunHandlesReturn)
            => /\ pc' = "transcribe"
               /\ ret' = None
               /\ ~run_raised'
               /\ task'.status = "processing"
       /\ (call_log' # call_log /\ pc = "transcribe")
            => \A i \in CallsOf("extract") : \A j \in CallsOf("preprocess") :
                  call_log[j].kind = "falsy"
                    => /\ call_log'[Len(call_log')].stage = "transcribe"
                       /\ call_log'[Len(call_log')].arg = call_log[i].value
      ]_vars

\* Transcription invoked after a failed preprocessing.
C6_Witness ==
    /\ call_log # <<>>
    /\ LastCall.stage = "transcribe"
    /\ LastCall.arg = "b.wav"
    /\ \E j \in CallsOf("preprocess") : call_log[j].kind = "falsy"

\* The progress checkpoint reached before each fatal stage.
CheckpointBefore(s) ==
    CASE s = "download"   -> 10
      [] s = "extract"    -> 30
      [] s = "transcribe" -> 50
      [] s = "translate"  -> 70
      [] s = "synthesize" -> 80
      [] s = "merge"      -> 90

\* C7: the transition to failed after a stage failure leaves progress at the
\* last checkpoint reached before that stage (50 for transcription).
C7_FailureKeepsProgress ==
    [][\A s \in FatalStages :
          (Returned(s) /\ ret[1].kind = "falsy" /\ RunHandlesReturn)
            => /\ task'.status = "failed"
               /\ task'.progress = task.progress
               /\ task'.progress = CheckpointBefore(s)]_vars

\* A run ended by a failed transcription, progress still 50.
C7_Witness ==
    /\ pc = "done"
    /\ call_log # <<>>
    /\ LastCall.stage = "transcribe"
    /\ LastCall.kind = "falsy"
    /\ task.status = "failed"
    /\ task.progress = 50

----------------------------------------------------------------------------
(* Properties of the adaptive mitigation engine and the Outcome Log *)

InRecordOutcome(p) == downloads[p].pc \in {"open", "write"}

LinesOf(file) == {file.lines[i] : i \in 1..Len(file.lines)}

\* C8: once every record_outcome call has returned, every entry passed to
\* record_outcome is in the log.
C8_NoAppendLost ==
    (\A p \in Procs : ~InRecordOutcome(p))
      => \A e \in recorded : e \in LinesOf(log_file)

\* C9: on a log that is missing or empty, get_adaptive_params returns
\* proxy_enabled = false and cookies_enabled = false.
C9_EmptyLogGivesDefaultPair ==
    (~log_file.exists \/ log_file.lines = <<>>)
      => \A i \in 1..Len(engine_calls) : engine_calls[i] = <<FALSE, FALSE>>

\* The Outcome Records of a log file in the group of a pair.
GroupOf(file, pair) ==
    {i \in 1..Len(file.lines) :
        /\ file.lines[i].kind = "record"
        /\ <<file.lines[i].proxy_used, file.lines[i].cookies_used>> = pair}

Successes(file, pair) ==
    Cardinality({i \in GroupOf(file, pair) : file.lines[i].success})

Attempts(file, pair) == Cardinality(GroupOf(file, pair))

\* rate(p) < rate(q), a group with no attempts having rate 0
RateLess(file, p, q) ==
    IF Attempts(file, q) = 0 THEN FALSE
    ELSE IF Attempts(file, p) = 0 THEN Successes(file, q) > 0
    ELSE Successes(file, p) * Attempts(file, q)
           < Successes(file, q) * Attempts(file, p)

PositionOf(pair) == CHOOSE i \in 1..Len(Order) : Order[i] = pair

\* The log holds Outcome Records and lines that are not JSON, nothing else.
OutcomeLog(file) ==
    \A i \in 1..Len(file.lines) : file.lines[i].kind # "nonobject"

\* C10: get_adaptive_params returns a pair of highest success rate over the
\* four groups of the log (no attempts counting as rate 0), the first such
\* pair in the order (T,T), (T,F), (F,T), (F,F), and returns the same pair at
\* every call on an unchanged log.
C10_BestPairFirstOnTies ==
    OutcomeLog(log_file)
      => \A i \in 1..Len(engine_calls) :
            /\ \A q \in Pairs : ~RateLess(log_file, engine_calls[i], q)
            /\ \A q \in Pairs :
                  PositionOf(q) < PositionOf(engine_calls[i])
                     => RateLess(log_file, q, engine_calls[i])
            /\ engine_calls[i] = engine_calls[1]

\* Two calls on a log where (T,T) succeeded once in two attempts and (F,F)
\* once in one: both return (F,F).
C10_Witness ==
    /\ Len(engine_calls) = 2
    /\ Attempts(log_file, <<TRUE, TRUE>>) = 2
    /\ Successes(log_file, <<TRUE, TRUE>>) = 1
    /\ Attempts(log_file, <<FALSE, FALSE>>) = 1
    /\ Successes(log_file, <<FALSE, FALSE>>) = 1
    /\ engine_calls[2] = <<FALSE, FALSE>>

\* The log holds something, and nothing of it is an Outcome Record.
MalformedLog(file) ==
    /\ file.exists
    /\ file.lines # <<>>
    /\ \A i \in 1..Len(file.lines) : file.lines[i].kind # "record"

\* C11: get_adaptive_params returns at every call, whatever the log holds,
\* and on a log whose content is malformed it returns proxy_enabled = false
\* and cookies_enabled = false.
C11_MalformedLogGivesDefaultPair ==
    /\ Len(engine_calls) < MaxEngineCalls => ENABLED engine_query
    /\ MalformedLog(log_file)
         => \A i \in 1..Len(engine_calls) : engine_calls[i] = <<FALSE, FALSE>>

\* C12: the analysis of a log that mixes Outcome Records with malformed
\* lines (not JSON, or JSON that is no object) counts every Outcome Record:
\* each group met in the log gets its successes over its attempts.
C12_MalformedEntriesSkipped ==
    engine_calls # <<>>
      => \A q \in Pairs :
            Attempts(log_file, q) > 0
              => /\ q \in DOMAIN analyze_logs(log_file)
                 /\ analyze_logs(log_file)[q]
                      = <<Successes(log_file, q), Attempts(log_file, q)>>

\* The download_video call that made attempt k has returned.
AttemptReturned(k) ==
    \A p \in Procs : downloads[p].pc = "idle" \/ downloads[p].ts # k

\* C13: every acquisition attempt whose download_video call has returned
\* has appended exactly one Outcome Record, whatever the attempt came to.
C13_EveryAttemptRecorded ==
    \A k \in 1..attempts :
        AttemptReturned(k) => Cardinality({e \in recorded : e.ts = k}) = 1

\* C14: the Outcome Record handed to record_outcome for an attempt carries
\* the pair the engine returned for that attempt.
C14_RecordCarriesEnginePair ==
    \A p \in Procs :
        InRecordOutcome(p)
          => /\ downloads[p].entry[1].proxy_used
                  = downloads[p].adaptive[1].proxy_enabled
             /\ downloads[p].entry[1].cookies_used
                  = downloads[p].adaptive[1].cookies_enabled

\* C15: a record the run has moved to completed or failed is not changed to
\* cancelled afterwards.
C15_FinishedNeverCancelled ==
    [][task.status \in {"completed", "failed"}
         => task'.status # "cancelled"]_vars

----------------------------------------------------------------------------
(* Properties of update_status called with any arguments *)

\* A direct update_status call is made in this step.
Called == last_call' # last_call

Accepted == Called /\ ~last_call'[1].raised

Rejected == Called /\ last_call'[1].raised

\* C16: progress stays within 0..100 through any sequence of update_status
\* calls, accepted or rejected.
C16_ProgressInRange == 0 <= task.progress /\ task.progress <= 100

\* A call with progress 101 was rejected after progress had reached 50.
C16_Witness ==
    /\ last_call # None
    /\ last_call[1].raised
    /\ last_call[1].progress = Some(101)
    /\ task.progress = 50

\* C17: a call whose progress argument is outside 0..100 fails and leaves
\* the record as it was, its status included.
C17_BadProgressLeavesRecord ==
    [][(Called /\ last_call'[1].progress # None
          /\ ~(0 <= last_call'[1].progress[1]
                /\ last_call'[1].progress[1] <= 100))
         => (last_call'[1].raised /\ task' = task)]_vars

\* C18: a call whose status is none of the seven statuses fails and leaves
\* every field of the record unchanged.
C18_BadStatusLeavesRecord ==
    [][(Called /\ last_call'[1].status \notin
            {"pending", "downloading", "processing", "uploading",
             "completed", "failed", "cancelled"})
         => (last_call'[1].raised /\ task' = task)]_vars

\* A call with status "archived" was rejected on a record that earlier
\* calls had moved to processing.
C18_Witness ==
    /\ last_call # None
    /\ last_call[1].status = "archived"
    /\ last_call[1].raised
    /\ task.status = "processing"

\* C19: every accepted call to completed leaves progress = 100, whatever
\* progress argument it was given.
C19_CompletedMeansHundred ==
    [][(Accepted /\ last_call'[1].status = "completed")
         => task'.progress = 100]_vars

\* An accepted call update_status('completed', 50).
C19_Witness ==
    /\ last_call # None
    /\ last_call[1].status = "completed"
    /\ last_call[1].progress = Some(50)
    /\ ~last_call[1].raised
    /\ task.status = "completed"
    /\ task.progress = 100

\* C20: started_at is set by the first call that moves the record away from
\* pending, to whatever status, and no later call changes it.
C20_StartedOnLeavingPending ==
    [][/\ (Called /\ task.status = "pending" /\ task'.status # "pending")
            => task'.started_at # None
       /\ (Called /\ task.started_at # None)
            => task'.started_at = task.started_at]_vars

\* C21: a direct update_status call on a non-terminal record never lowers
\* its progress: it is rejected or leaves progress at least where it was.
C21_ProgressNeverLowered ==
    [][(Called /\ task.status \notin {"completed", "failed", "cancelled"})
         => task'.progress >= task.progress]_vars

\* The place of a status in the pipeline order.
PipelineRank(status) ==
    CASE status = "pending"     -> 1
      [] status = "downloading" -> 2
      [] status = "processing"  -> 3
      [] status = "uploading"   -> 4
      [] status = "completed"   -> 5

\* C22: a direct update_status call never moves a non-terminal record
\* backward in the order pending, downloading, processing, uploading,
\* completed; failed and cancelled alone are entered out of that order.
C22_StatusNeverBackward ==
    [][(Called /\ task.status \notin {"completed", "failed", "cancelled"}
          /\ task'.status \notin {"failed", "cancelled"})
         => PipelineRank(task'.status) >= PipelineRank(task.status)]_vars

\* C23: under any interleaving of the pipeline run and cancellation
\* requests, error_message is set only while status is failed or cancelled.
C23_ErrorMessageOnlyWhenFailed ==
    task.error_message # None => task.status \in {"failed", "cancelled"}

\* C24: when the run has ended, at completed or at failed, the working
\* directory it created has been removed.
C24_WorkingDirectoryReleased == pc = "done" => ~download_dir

IsRecord(line) == line.kind = "record"

\* The Outcome Records among lines, in their order.
RecordsIn(lines) == SelectSeq(lines, IsRecord)

\* What the record_outcome call of p found in the log when it read it.
ReadBy(p) == SubSeq(downloads[p].logs, 1, Len(downloads[p].logs) - 1)

\* C25: when a record_outcome call returns, the log holds the Outcome
\* Records the call found in it, unchanged and in the same order, followed
\* by the new record, and no Outcome Record that was in the log just before
\* the call wrote has gone.
C25_EarlierRecordsKept ==
    [][\A p \in Procs :
          (downloads[p].pc = "write" /\ downloads'[p].pc = "idle")
            => /\ RecordsIn(log_file'.lines)
                    = RecordsIn(ReadBy(p)) \o <<downloads[p].entry[1]>>
               /\ \A i \in 1..Len(log_file.lines) :
                      IsRecord(log_file.lines[i])
                        => \E j \in 1..Len(log_file'.lines) :
                              log_file'.lines[j] = log_file.lines[i]]_vars

----------------------------------------------------------------------------
(* Claims about cancel_task *)

\* C26: a cancellation request that finds the record completed, failed or
\* cancelled is answered with an error and changes nothing: the record
\* (status, progress and error message included) stays as it is, no revoke
\* is sent and the handler goes no further.
C26_FinishedCancelRejected ==
    [][(cancel_count' # cancel_count
          /\ task.status \in {"completed", "failed", "cancelled"})
         => /\ cancel_resp' \in {Some(400), Some(404)}
            /\ task' = task
            /\ revokes' = revokes
            /\ cancel_pc' = "idle"]_vars

\* A failed record has been asked to cancel and the request was refused.
C26_Witness ==
    /\ task.status = "failed"
    /\ task.error_message # Some("Task cancelled by user")
    /\ cancel_resp = Some(400)

\* The last answer came from route and is not the answer before this step.
Answered(route) ==
    /\ http' # http
    /\ http' # None
    /\ http'[1].route = route

\* C27: a cancellation request that names a record in pending, downloading,
\* processing or uploading sets the record's status to cancelled with the
\* cancellation message and leaves its progress as it was.
C27_CancelSetsCancelled ==
    [][\A i \in 1..Len(db_tasks) :
          (/\ Answered("cancel-task")
           /\ http'[1].request.segment = db_tasks[i].id
           /\ db_tasks[i].rec.status
                \in {"pending", "downloading", "processing", "uploading"})
            => /\ db_tasks'[i].rec.status = "cancelled"
               /\ db_tasks'[i].rec.error_message
                    = Some("Task cancelled by user")
               /\ db_tasks'[i].rec.progress = db_tasks[i].rec.progress]_vars

----------------------------------------------------------------------------
(* Claims about start_dubbing *)

\* The requests the claim names: a required key is absent, the URL is not a
\* YouTube URL, the video cannot be read or is longer than the maximum.
InvalidStart(request) ==
    IF request.data = None
    THEN TRUE
    ELSE IF \/ request.data[1].youtube_url = None
            \/ request.data[1].target_language = None
            \/ request.data[1].user_id = None
    THEN TRUE
    ELSE IF ~validate_video_url(request.data[1].youtube_url[1])
    THEN TRUE
    ELSE IF request.info = None
    THEN TRUE
    ELSE IF request.info[1].duration = None
    THEN FALSE
    ELSE request.info[1].duration[1] > MaxVideoDuration

RowsWithId(rows, id) == {i \in 1..Len(rows) : rows[i].id = id}

RunsWithId(queue, id) == {k \in 1..Len(queue) : queue[k].task_id = id}

\* C29: an accepted start-dubbing request creates exactly one record, at
\* pending with progress 0, commits it, and only then queues exactly one run
\* that carries the record's id: a step that adds rows adds one new pending
\* row no run names yet; a step that queues runs queues one, for a row
\* already committed and not queued before; and the id a 202 answer returns
\* names one row and one run.
C29_AcceptedStartCreatesThenQueues ==
    [][/\ Len(db_tasks') # Len(db_tasks)
            => /\ Len(db_tasks') = Len(db_tasks) + 1
               /\ SubSeq(db_tasks', 1, Len(db_tasks)) = db_tasks
               /\ db_tasks'[Len(db_tasks')].rec.status = "pending"
               /\ db_tasks'[Len(db_tasks')].rec.progress = 0
               /\ RowsWithId(db_tasks, db_tasks'[Len(db_tasks')].id) = {}
               /\ RunsWithId(celery_queue', db_tasks'[Len(db_tasks')].id) = {}
       /\ Len(celery_queue') # Len(celery_queue)
            => /\ Len(celery_queue') = Len(celery_queue) + 1
               /\ Cardinality(RowsWithId(db_tasks,
                      celery_queue'[Len(celery_queue')].task_id)) = 1
               /\ RunsWithId(celery_queue,
                      celery_queue'[Len(celery_queue')].task_id) = {}
       /\ (Answered("start-dubbing") /\ http'[1].code = 202)
            => /\ Cardinality(RowsWithId(db_tasks', http'[1].body[1])) = 1
               /\ Cardinality(RunsWithId(celery_queue', http'[1].body[1])) = 1
               /\ RowsWithId(db_tasks', http'[1].body[1]) = {start_pc.row}]_vars

\* A second request has been accepted: two records, two runs, and the
\* answer carries the id of the second record.
C29_Witness ==
    /\ http # None
    /\ http[1].route = "start-dubbing"
    /\ http[1].code = 202
    /\ Len(db_tasks) = 2
    /\ Len(celery_queue) = 2
    /\ http[1].body = Some(db_tasks[2].id)

----------------------------------------------------------------------------
(* Claims about get_task_status *)

\* What to_dict shows of a row
Shown(row) ==
    [id |-> row.id, status |-> row.rec.status, progress |-> row.rec.progress]

\* C30: a status lookup with the id of an existing record is answered 200
\* with that record's current status and progress; a lookup with an id
\* that matches no record is answered 404.
C30_LookupReturnsRecord ==
    [][Answered("task-status")
         => IF RowsWithId(db_tasks, http'[1].request.segment) # {}
            THEN /\ http'[1].code = 200
                 /\ \E i \in RowsWithId(db_tasks, http'[1].request.segment) :
                       http'[1].body = Some(Shown(db_tasks[i]))
            ELSE http'[1].code = 404]_vars

----------------------------------------------------------------------------
(* Claims about concurrent use of the Outcome Log *)

\* C31: a get_adaptive_params call made while another worker is inside
\* record_outcome analyses a log that holds every Outcome Record that
\* worker found in the file when its call began; it never analyses a
\* truncated log.
C31_AnalysisSeesWholeLog ==
    [][\A p \in Procs : \A q \in Procs \ {p} :
          (/\ downloads[p].pc = "idle"
           /\ downloads'[p].pc = "attempt"
           /\ downloads[q].pc \in {"open", "write"})
            => \A i \in 1..Len(ReadBy(q)) :
                  IsRecord(ReadBy(q)[i])
                    => \E j \in 1..Len(downloads'[p].read.lines) :
                          downloads'[p].read.lines[j] = ReadBy(q)[i]]_vars

----------------------------------------------------------------------------
(* Claims about cancellation and the pipeline run *)

\* C32: every cancellation request that is accepted (the record is found and
\* not finished) sends exactly one revoke signal for the record's run
\* before it sets the record to cancelled, at whatever point after the run
\* was queued the request arrives.
C32_AcceptedCancelRevokesOnce ==
    [][(cancel_count' # cancel_count /\ cancel_pc' = "update")
         => revokes' = revokes + 1]_vars

\* C33: a dispatched run whose collaborators all return or raise comes to an
\* end, and a run that has returned leaves the record completed, failed or
\* cancelled, never pending, downloading or processing.
C33_RunEndsInTerminalStatus ==
    /\ <>RunEnded
    /\ [](pc = "done" => task.status \in {"completed", "failed", "cancelled"})

\* A run that went on after an accepted cancellation and returned after its
\* translation stage failed.
C33_Witness ==
    /\ pc = "done"
    /\ cancel_resp = Some(200)
    /\ task.status = "failed"
    /\ task.error_message = Some("Failed to translate text")

\* C34: a record that reaches completed through a pipeline run has held the
\* statuses downloading, processing and uploading before, in that order.
\* In a run that no cancellation request has touched only the run writes
\* the status, so each of these statuses is entered from the one before it
\* in the order, and completed is entered from uploading.
C34_CompletedAfterUploading ==
    [][(dubbing_task /\ cancel_count = 0 /\ task'.status # task.status)
         => /\ task'.status = "processing" => task.status = "downloading"
            /\ task'.status = "uploading" => task.status = "processing"
            /\ task'.status = "completed" => task.status = "uploading"]_vars

----------------------------------------------------------------------------
(* Claims about download_video *)

\* What the call has done so far: engine queries, sleeps, network calls
DownloadEvents == downloads[Downloader].events

\* C35: in download_video the first network call is extract_info, and
\* before it the engine has been queried once and the process has slept
\* once, for exactly the sleep_interval the engine returned.
C35_SleepsEngineIntervalFirst ==
    \A i \in 1..Len(DownloadEvents) :
        /\ DownloadEvents[i].op = "extract_info"
             => /\ i = 3
                /\ DownloadEvents[1].op = "get_adaptive_params"
                /\ DownloadEvents[2].op = "sleep"
                /\ DownloadEvents[2].arg = DownloadEvents[1].arg
                /\ DownloadEvents[1].arg
                     = Some(downloads[Downloader].adaptive[1].sleep_interval)
        /\ DownloadEvents[i].op = "download"
             => /\ i = 4
                /\ DownloadEvents[3].op = "extract_info"

\* extract_info has been called after the engine returned the longest of
\* the sampled delays.
C35_Witness ==
    /\ Len(DownloadEvents) >= 3
    /\ DownloadEvents[3].op = "extract_info"
    /\ DownloadEvents[1].arg = Some(3)

\* C36: whenever PROXY_URL is set, the options download_video hands to the
\* downloader carry that proxy, whatever the Outcome Log holds.
C36_ProxyPassedWhenConfigured ==
    (downloads[Downloader].ydl_opts # None
       /\ downloads[Downloader].env.PROXY_URL # None)
      => downloads[Downloader].ydl_opts[1].proxy
           = downloads[Downloader].env.PROXY_URL

----------------------------------------------------------------------------
(* Claims about what update_status commits *)

\* The committed row
Row == db_tasks[1].rec

\* C37: the committed row changes only in the commit that ends an accepted
\* update_status call, and that one change carries the call's status, its
\* progress, its error message and the timestamps together: the row never
\* shows the new status with the old progress or the reverse.
C37_SingleCommit ==
    [][/\ db_tasks' # db_tasks
            => /\ CallAt("commit")
               /\ last_call'[1].at = "returned"
               /\ ~last_call'[1].raised
               /\ Row'.status = last_call[1].status
               /\ Row'.progress =
                     (IF last_call[1].status = "completed" THEN 100
                      ELSE IF last_call[1].progress # None
                      THEN last_call[1].progress[1]
                      ELSE Row.progress)
               /\ Row'.error_message =
                     (IF last_call[1].error_message # None
                      THEN last_call[1].error_message
                      ELSE Row.error_message)
               /\ Row'.updated_at = now
               /\ last_call[1].status = "completed"
                    => Row'.completed_at = Some(now)
               /\ (last_call[1].status \in {"downloading", "processing"}
                     /\ Row.started_at = None)
                    => Row'.started_at = Some(now)
       /\ CallAt("commit") => Row' = task]_vars

\* A second accepted call has committed completed with progress 100 for a
\* record the first call had started.
C37_Witness ==
    /\ last_call # None
    /\ last_call[1].n = 2
    /\ last_call[1].at = "returned"
    /\ last_call[1].progress = None
    /\ Row.status = "completed"
    /\ Row.progress = 100
    /\ Row.started_at # None

----------------------------------------------------------------------------
(* Claims about what a run writes to the record *)

\* The progress values of a run in their order, and the stage each one
\* after the first marks
ProgressSteps == <<10, 30, 50, 70, 80, 90, 100>>

MarkedStage(i) ==
    <<"download", "download", "extract", "transcribe", "translate",
      "synthesize", "merge">>[i]

\* The run takes a step of its own
RunStep == pc' # pc /\ pc' # "killed"

\* C38: along a run, also one interleaved with cancellation requests, every
\* change the run makes to progress goes from one of 0, 10, 30, 50, 70, 80,
\* 90 to the next value, and each value after 10 is written only when the
\* collaborator of the stage it marks has returned success in this run.
C38_RunProgressIncreases ==
    [][(RunStep /\ task'.progress # task.progress)
         => \E i \in 1..Len(ProgressSteps) :
               /\ task'.progress = ProgressSteps[i]
               /\ task.progress = (IF i = 1 THEN 0 ELSE ProgressSteps[i - 1])
               /\ i > 1
                    => \E k \in 1..Len(call_log) :
                          /\ call_log[k].stage = MarkedStage(i)
                          /\ call_log[k].kind = "ok"]_vars

\* A run has written 100 although a cancellation request was accepted
\* while it ran.
C38_Witness ==
    /\ pc = "done"
    /\ task.progress = 100
    /\ cancel_resp = Some(200)
    /\ Len(call_log) = Len(Stages)

\* A column holds a value that is not empty
IsSet(field) == field # None /\ field # Some("")

\* C39: when a run sets the record to completed, original_video_path,
\* original_audio_path, transcription_text, translated_text,
\* dubbed_audio_path and final_video_path are all set on it.
C39_CompletedHasAllOutputs ==
    [][(RunStep /\ task'.status = "completed")
         => /\ IsSet(task'.original_video_path)
            /\ IsSet(task'.original_audio_path)
            /\ IsSet(task'.transcription_text)
            /\ IsSet(task'.translated_text)
            /\ IsSet(task'.dubbed_audio_path)
            /\ IsSet(task'.final_video_path)]_vars

\* A run completed the record after its preprocessing had failed.
C39_Witness ==
    /\ pc = "done"
    /\ task.status = "completed"
    /\ \E k \in 1..Len(call_log) :
          call_log[k].stage = "preprocess" /\ call_log[k].kind = "falsy"

\* C40: a run of dubbing_task that finds its record already completed,
\* failed or cancelled returns at once: the record stays as it is and no
\* stage collaborator is invoked.
C40_RerunLeavesRecord ==
    [][(dubbing_task /\ pc = "queued" /\ task.status \in TerminalStatuses)
         => /\ task' = task
            /\ call_log' = call_log
            /\ pc' = "done"]_vars

====
